---- MODULE Spec2Model ----
(***************************************************************************)
(* The image storage gateway of TaskShare: OneDriveStorageManager          *)
(* (server/storage.ts, lines 634-801) and the routes that use it (the      *)
(* routes module with the OneDrive wiring, src/unnamed/part_004).          *)
(*                                                                         *)
(* Node runs every handler to its next await without interruption, so an   *)
(* action of this model is one stretch of code between two awaits.         *)
(***************************************************************************)
EXTENDS Integers, Sequences, FiniteSets, TLC

\* ---------------------------------------------------------------- bounds
MaxAccounts == 3
NumReqs == 4
MaxOverlaps == 1
MaxOddFiles == 1

Reqs == 1..NumReqs

VARIABLES
  env,                  \* process.env: which ONEDRIVE_* settings are present
  oneDriveManager,      \* part_004:18  TRUE when the manager was constructed
  numAccounts,          \* config.accounts.length
  currentAccountIndex,  \* storage.ts:636  the placement cursor
  health,               \* per account: how the provider answers its calls
  folders,              \* per account: the folders that exist remotely
  objects,              \* the drive items stored remotely
  disk,                 \* the files of uploadsDir
  tasks,                \* the task records persisted by storage.createTask
  users,                \* per user: the avatar of the user record
  req,                  \* the POST /api/tasks requests and their uploadImage calls
  decisions,            \* history: the values returned by getNextAccount, in order
  overlaps,             \* history: how many requests arrived during another's upload
  lastFetch,            \* the answer of the GET /api/onedrive/image being served, if any
  lastStatus            \* the answer of the GET /api/onedrive/status being served, if any

vars == <<env, oneDriveManager, numAccounts, currentAccountIndex, health, folders,
          objects, disk, tasks, users, req, decisions, overlaps, lastFetch, lastStatus>>

\* ------------------------------------------------------- values and names
\* parseInt of a string that does not start with a digit or a sign: a value that is
\* no integer of the runs, so that it differs from parseInt("-1")
NaN == -99
\* fs.writeFileSync given `undefined` where old runtimes wrote the text "undefined"
UndefinedText == 0
\* a property that is absent from an object, rendered by a template literal
Undefined == "undefined"

Accounts == 0..(numAccounts - 1)
Outcomes == {"ok", "auth", "upload"}
\* storage.ts:655  the token endpoint never answers the axios.post, which is given
\* no timeout
Hang == "hang"

\* Date.now() + '-' + Math.round(Math.random() * 1E9) + extname: a fresh name
\* per generation; multer's diskStorage and the route handler each draw their own
MulterName(r) == "m" \o ToString(r)
HandlerName(r) == "h" \o ToString(r)
\* uploadResponse.data.id: the provider gives each stored item its own id
ItemId(r) == "item" \o ToString(r)
\* req.file.buffer: every request carries an image of its own
BlobOf(r) == r

\* ---------------------------------------------------------- pure helpers
\* storage.ts:665-670
getNextAccount_noWrap(cur, n) == [accountIndex |-> cur, next |-> cur + 1]
getNextAccount_backwards(cur, n) == [accountIndex |-> cur, next |-> (cur + n - 1) % n]
getNextAccount_stuck(cur, n) == [accountIndex |-> cur, next |-> cur]
getNextAccount_preIncrement(cur, n) ==
  [accountIndex |-> (cur + 1) % n, next |-> (cur + 1) % n]
getNextAccount(cur, n) == [accountIndex |-> cur, next |-> (cur + 1) % n]

\* storage.ts:642-663  getAccessToken: the exchange sends the refresh token of
\* config.accounts[accountIndex] and returns the access token of that account. The
\* class keeps no token: each call is an exchange of its own, `op` names the
\* operation that made it
getAccessToken_shared(accountIndex, op) == [account |-> 0, op |-> [kind |-> "shared", r |-> 0, n |-> 0]]
getAccessToken(accountIndex, op) == [account |-> accountIndex, op |-> op]

\* the operations that ask for a token: the n-th attempt of the upload of request
\* r, a download, the quota query of the n-th account of a report
UploadOp(r, n) == [kind |-> "upload", r |-> r, n |-> n]
DownloadOp == [kind |-> "download", r |-> 0, n |-> 0]
QuotaOp(n) == [kind |-> "quota", r |-> 0, n |-> n]

\* storage.ts:715  the retry condition of the catch block
hasNextAccount_always(accountIndex, n) == TRUE
hasNextAccount_never(accountIndex, n) == FALSE
hasNextAccount_inclusive(accountIndex, n) == accountIndex <= n - 1
hasNextAccount(accountIndex, n) == accountIndex < n - 1

\* storage.ts:699  `/api/onedrive/image/${accountIndex}/${itemId}`
proxyUrl_oneBased(accountIndex, itemId) ==
  <<"api", "onedrive", "image", ToString(accountIndex + 1), itemId>>
proxyUrl(accountIndex, itemId) ==
  <<"api", "onedrive", "image", ToString(accountIndex), itemId>>

\* part_004:348  the URL of a GET whose two path segments are given
proxyUrl_segments(seg, itemId) == <<"api", "onedrive", "image", seg, itemId>>

\* part_004:193, 205  `/uploads/${name}`
localUrl(name) == <<"uploads", name>>

\* part_004:354  parseInt(req.params.accountIndex): the number whose decimal form
\* the segment is, NaN for any other segment
Decimal == [n \in (-1)..(MaxAccounts + 1) |-> ToString(n)]
parseInt(s) ==
  LET ns == {n \in DOMAIN Decimal : Decimal[n] = s} IN
    IF ns = {} THEN NaN ELSE CHOOSE n \in ns : TRUE

IsGatewayUrl(u) == Len(u) = 5 /\ SubSeq(u, 1, 3) = <<"api", "onedrive", "image">>
IsLocalUrl(u) == Len(u) = 2 /\ u[1] = "uploads"

\* part_004:21-35  with the client id and secret set, the account list is the one
\* entry for ONEDRIVE_REFRESH_TOKEN_1, kept when the token is set; the manager is
\* constructed when the list is not empty
\* ONEDRIVE_REFRESH_TOKEN_2 .. _6 (e.tokens2to6) are read nowhere
RoutesAccounts(e) == IF e.clientId /\ e.clientSecret /\ e.token1 THEN 1 ELSE 0
RoutesManager(e) == e.clientId /\ e.clientSecret /\ RoutesAccounts(e) > 0

\* part_004:69  express.static(uploadsDir): the content of a file, or none
StaticRead(u) ==
  IF IsLocalUrl(u) /\ \E f \in disk : f.name = u[2]
  THEN {f.content : f \in {g \in disk : g.name = u[2]}}
  ELSE {}

\* part_004:48-50  limits.fileSize, in bytes. multer hands the limit to the busboy
\* it was installed with, and the source names no version: busboy 0.x reports a
\* file that has more bytes than the limit, busboy 1.x (multer 1.4.5-lts and 2.x)
\* a file whose bytes reach the limit. `reach` says which one the build has.
fileSize == 10 * 1024 * 1024
exceedsLimit(size, limit, reach) == IF reach THEN size >= limit ELSE size > limit

\* part_004:52-54  allowedTypes.test(s): the pattern is not anchored, so it matches
\* a string that has one of the words anywhere in it
Contains(s, w) == \E i \in 1..(Len(s) - Len(w) + 1) : SubSeq(s, i, i + Len(w) - 1) = w
allowedTypes(s) == \E w \in {"jpeg", "jpg", "png", "gif", "webp"} : Contains(s, w)
\* String.prototype.toLowerCase on the extensions of the runs
toLowerCase(s) == IF s = ".PNG" THEN ".png" ELSE s
\* part_004:51-61  fileFilter, on path.extname(originalname) and the mimetype
fileFilter(file) == allowedTypes(file.mimetype) /\ allowedTypes(toLowerCase(file.ext))

\* the image most requests carry: a PNG of 1 MiB
UsualFile == [size |-> 1024 * 1024, mimetype |-> "image/png", ext |-> ".png"]
\* the other files a request may carry: a PNG of exactly the limit, of a byte less
\* and of a byte more, an upper-case extension, a wrong content type or a wrong
\* extension, a content type that is no image type and has the word jpeg in it, a
\* text file over the limit
OddFiles ==
  { [size |-> fileSize - 1, mimetype |-> "image/png", ext |-> ".png"],
    [size |-> fileSize, mimetype |-> "image/png", ext |-> ".png"],
    [size |-> fileSize + 1, mimetype |-> "image/png", ext |-> ".png"],
    [size |-> 1024 * 1024, mimetype |-> "image/png", ext |-> ".PNG"],
    [size |-> 1024 * 1024, mimetype |-> "text/plain", ext |-> ".png"],
    [size |-> 1024 * 1024, mimetype |-> "image/png", ext |-> ".txt"],
    [size |-> 1024 * 1024, mimetype |-> "video/jpeg", ext |-> ".jpeg"],
    [size |-> fileSize + 1, mimetype |-> "text/plain", ext |-> ".txt"] }

NoUrl == <<>>
\* part_004:408-424  initializeUsers: the users of the table; their avatar is not
\* set. `by` is the request that set the avatar of a user record.
UserIds == {1, 2}
NoAvatar == [avatar |-> NoUrl, by |-> 0]
\* storage.ts:681  accessToken before getAccessToken has returned
NoToken == [account |-> NaN, op |-> [kind |-> "none", r |-> 0, n |-> 0]]
NewReq ==
  [pc |-> "new", bytes |-> 0, startCursor |-> 0, acct |-> 0, tried |-> <<>>,
   exchanges |-> <<>>, store |-> "none", url |-> NoUrl, status |-> 0, cause |-> "none",
   file |-> UsualFile, cancelled |-> FALSE, token |-> NoToken]
NoFetch == [url |-> NoUrl, status |-> 0, body |-> 0, cause |-> "none", contacted |-> {}]
\* `listed` says whether the answer has an `accounts` list at all
NoStatus ==
  [code |-> 0, enabled |-> FALSE, listed |-> FALSE, accounts |-> <<>>, quotaFailed |-> {},
   tokens |-> <<>>]

\* ------------------------------------------------------------------- Init
\* Either the routes module builds the manager from the environment (its account
\* list names ONEDRIVE_REFRESH_TOKEN_1 only), or the exported class is constructed
\* with a configuration of 1..MaxAccounts accounts and serves the same routes.
InitWith(outcomes) ==
  /\ env \in [clientId : BOOLEAN, clientSecret : BOOLEAN, token1 : BOOLEAN,
              tokens2to6 : BOOLEAN]
  /\ \/ /\ numAccounts = RoutesAccounts(env)
        /\ oneDriveManager = RoutesManager(env)
     \/ /\ env = [clientId |-> TRUE, clientSecret |-> TRUE, token1 |-> TRUE,
                  tokens2to6 |-> TRUE]
        /\ numAccounts \in 2..MaxAccounts
        /\ oneDriveManager = TRUE
  /\ currentAccountIndex = 0
  /\ health \in [Accounts -> outcomes]
  /\ folders = [a \in Accounts |-> {}]
  /\ objects = {}
  /\ disk = {}
  /\ tasks = {}
  /\ users = [id \in UserIds |-> NoAvatar]
  /\ req = [r \in Reqs |-> NewReq]
  /\ decisions = <<>>
  /\ overlaps = 0
  /\ lastFetch = NoFetch
  /\ lastStatus = NoStatus

\* the provider answers every call
Init == InitWith(Outcomes)

\* ---------------------------------------------------------------- actions
\* A GET of an image reads what no other handler changes under it: items are never
\* overwritten or deleted and the cursor is not read. It is taken as one step, and
\* its answer is sent before the next step of any other request.
Quiet == lastFetch = NoFetch /\ lastStatus = NoStatus

InFlight == {r \in Reqs : req[r].pc \notin {"new", "done"}}

\* insertTaskSchema.parse or storage.createTask may reject the task data of a
\* request. A rejected request changes nothing but its own answer, so the runs
\* let the last request carry either kind of task data and the others valid data.
Verdicts(r) == IF r = NumReqs THEN BOOLEAN ELSE {TRUE}

\* part_004:211-222  validate, insert, answer; a ZodError or a failed insert is an
\* Error and is answered with 400
Respond(r, rec, image, valid) ==
  IF valid
  THEN /\ tasks' = tasks \cup {[id |-> r, image |-> image]}
       /\ req' = [req EXCEPT ![r] = [rec EXCEPT !.pc = "done", !.status = 200, !.cause = "ok"]]
  ELSE /\ tasks' = tasks
       /\ req' = [req EXCEPT ![r] = [rec EXCEPT !.pc = "done", !.status = 400, !.cause = "invalid"]]

\* storage.ts:677-681  uploadImage up to its first await: take an account from the
\* cursor and ask for its token
StartAttempt(r, rec) ==
  LET sel == getNextAccount(currentAccountIndex, numAccounts) IN
    /\ currentAccountIndex' = sel.next
    /\ decisions' = Append(decisions, sel.accountIndex)
    /\ req' = [req EXCEPT ![r] = [rec EXCEPT !.pc = "token",
                                             !.acct = sel.accountIndex,
                                             !.tried = Append(@, sel.accountIndex),
                                             !.exchanges = Append(@, sel.accountIndex),
                                             !.token = NoToken]]

\* part_004:190-195  the handler's catch around uploadImage: req.file.filename is
\* absent under memoryStorage
OnStoreError_rethrow(r, rec) ==
  /\ tasks' = tasks
  /\ req' = [req EXCEPT ![r] = [rec EXCEPT !.pc = "done", !.status = 400, !.cause = "store"]]
OnStoreError(r, rec) ==
  \E valid \in Verdicts(r) : Respond(r, rec, localUrl(Undefined), valid)

\* storage.ts:711-721  the catch block of uploadImage
Catch(r) ==
  IF hasNextAccount(req[r].acct, numAccounts)
  THEN /\ StartAttempt(r, req[r])
       /\ UNCHANGED tasks
  ELSE /\ OnStoreError(r, [req[r] EXCEPT !.store = "failed"])
       /\ UNCHANGED <<currentAccountIndex, decisions>>

\* part_004:38-62  multer refuses the file: its error goes to next(err), the route
\* handler does not run, and Express answers 500; a file that diskStorage had begun
\* to write is removed
Reject(r, rec, why) ==
  /\ req' = [req EXCEPT ![r] = [rec EXCEPT !.pc = "done", !.status = 500, !.cause = why]]
  /\ UNCHANGED <<currentAccountIndex, decisions, disk, tasks>>

\* part_004:37-62, 157-209  upload.single('image') filters and stores the file, then
\* the handler runs to its first await
Upload(r, file) ==
  /\ Quiet
  /\ req[r].pc = "new"
  /\ \A q \in 1..(r - 1) : req[q].pc # "new"
  /\ InFlight = {} \/ overlaps < MaxOverlaps
  /\ overlaps' = IF InFlight = {} THEN overlaps ELSE overlaps + 1
  /\ \E reach \in BOOLEAN :
       LET b == BlobOf(r)
           rec == [req[r] EXCEPT !.bytes = b, !.startCursor = currentAccountIndex,
                                 !.file = file] IN
         IF ~fileFilter(file) THEN Reject(r, rec, "filter")
         ELSE IF exceedsLimit(file.size, fileSize, reach) THEN Reject(r, rec, "size")
         ELSE IF oneDriveManager
         THEN \* memoryStorage: the bytes are in req.file.buffer
              /\ StartAttempt(r, rec)
              /\ UNCHANGED <<disk, tasks>>
         ELSE \* diskStorage: multer wrote the file, req.file.buffer is absent
              /\ UNCHANGED <<currentAccountIndex, decisions>>
              /\ \E coerces \in BOOLEAN :
                   IF coerces
                   THEN /\ disk' = disk \cup {[name |-> MulterName(r), content |-> b],
                                              [name |-> HandlerName(r), content |-> UndefinedText]}
                        /\ \E valid \in Verdicts(r) :
                             Respond(r, rec, localUrl(HandlerName(r)), valid)
                   ELSE /\ disk' = disk \cup {[name |-> MulterName(r), content |-> b]}
                        /\ tasks' = tasks
                        /\ req' = [req EXCEPT ![r] = [rec EXCEPT !.pc = "done", !.status = 400,
                                                                 !.cause = "write"]]
  /\ UNCHANGED <<env, users, oneDriveManager, numAccounts, health, folders, objects, lastFetch,
                 lastStatus>>

\* POST /api/tasks with an image that multer lets through
PostTasks(r) == Upload(r, UsualFile)

\* storage.ts:724-751  GET the folder; when the GET throws, whatever the reason,
\* POST a create with conflictBehavior 'replace', which the provider does not refuse
\* for a name that is taken. `existing`
\* are the folders of the account: for each its path, how many create requests the
\* provider got for it after a check that failed though the folder was there
\* (`recreated`), and whether another writer made it between the check and the
\* create (`raced`). `checkFails` says that the GET fails on a folder that is
\* there, `appears` that the folder is made between the GET and the POST.
ensureFolderExists(existing, folderPath, checkFails, appears) ==
  LET found == {f \in existing : f.path = folderPath} IN
    IF found # {} /\ ~checkFails THEN existing
    ELSE IF found # {}
    THEN (existing \ found) \cup {[f EXCEPT !.recreated = @ + 1] : f \in found}
    ELSE existing \cup {[path |-> folderPath, recreated |-> 0, raced |-> appears]}

\* storage.ts:642-663, 681-690  the token exchange answers; with a token the two
\* folders are ensured and the PUT is sent. The folder calls touch nothing but the
\* folders of the account, so they are taken in the same step.
TokenAnswer(r, checkFails, appears) ==
  /\ Quiet
  /\ req[r].pc = "token"
  /\ health[req[r].acct] # Hang
  /\ IF health[req[r].acct] = "auth"
     THEN /\ Catch(r)
          /\ UNCHANGED folders
     ELSE LET accessToken == getAccessToken(req[r].acct, UploadOp(r, Len(req[r].tried)))
              root == ensureFolderExists(folders[accessToken.account], "TaskShare",
                                         checkFails, appears) IN
          /\ folders' = [folders EXCEPT ![accessToken.account] =
                 ensureFolderExists(root, "TaskShare/images", checkFails, appears)]
          /\ req' = [req EXCEPT ![r].pc = "put", ![r].token = accessToken]
          /\ UNCHANGED <<currentAccountIndex, decisions, tasks>>
  /\ UNCHANGED <<env, users, oneDriveManager, numAccounts, health, objects, disk, overlaps, lastFetch,
                 lastStatus>>

\* the provider answers the folder checks, and no other writer makes the folders
TokenResponse(r) == TokenAnswer(r, FALSE, FALSE)

\* storage.ts:688-710 and part_004:188  the PUT answers; on success the reference
\* goes back to the handler, which persists result.url
PutResponse(r) ==
  /\ Quiet
  /\ req[r].pc = "put"
  /\ IF health[req[r].acct] = "upload"
     THEN /\ Catch(r)
          /\ UNCHANGED objects
     ELSE LET url == proxyUrl(req[r].acct, ItemId(r)) IN
          /\ objects' = objects \cup {[account |-> req[r].token.account, id |-> ItemId(r),
                                       bytes |-> req[r].bytes]}
          /\ \E valid \in Verdicts(r) :
               Respond(r, [req[r] EXCEPT !.store = "ref", !.url = url], url, valid)
          /\ UNCHANGED <<currentAccountIndex, decisions>>
  /\ UNCHANGED <<env, users, oneDriveManager, numAccounts, health, folders, disk, overlaps, lastFetch,
                 lastStatus>>

\* storage.ts:754  downloadImage asks for the token of the account it is given;
\* the GET of the item goes to the drive of that token
downloadAccount_first(accountIndex) == 0
downloadAccount(accountIndex) == getAccessToken(accountIndex, DownloadOp).account

\* storage.ts:753-765  downloadImage: a token for the given account, then the item;
\* the bytes it returns, none when it throws
downloadImage(accountIndex, itemId) ==
  IF downloadAccount(accountIndex) \notin Accounts THEN {}
  ELSE IF health[downloadAccount(accountIndex)] = "auth" THEN {}
  ELSE {o.bytes : o \in {p \in objects : p.account = downloadAccount(accountIndex)
                                          /\ p.id = itemId}}

\* storage.ts:643-661, 757  why downloadImage throws: config.accounts[accountIndex]
\* is undefined for an index outside the list and reading its refreshToken is a
\* TypeError; the token exchange is refused; the provider fails on the GET
\* (`fault`); the provider knows no such item
downloadError(accountIndex, itemId, fault) ==
  IF downloadAccount(accountIndex) \notin Accounts THEN "noaccount"
  ELSE IF health[downloadAccount(accountIndex)] = "auth" THEN "auth"
  ELSE IF fault THEN "unavailable"
  ELSE IF downloadImage(accountIndex, itemId) = {} THEN "noitem"
  ELSE "none"

\* storage.ts:754  the accounts whose token downloadImage asks for
downloadContacts(accountIndex) ==
  IF downloadAccount(accountIndex) \in Accounts THEN {downloadAccount(accountIndex)} ELSE {}

\* part_004:365-368  the catch of the proxy route answers 404 whatever was thrown
onImageError_serverError(cause) == 500
onImageError(cause) == 404

\* part_004:348-369  the answer of the proxy route for the segments of a URL: 404
\* without the manager and for whatever downloadImage throws
imageAnswer(u, fault) ==
  IF ~oneDriveManager
  THEN [url |-> u, status |-> 404, body |-> 0, cause |-> "notconfigured", contacted |-> {}]
  ELSE LET accountIndex == parseInt(u[4])
           err == downloadError(accountIndex, u[5], fault) IN
       IF err # "none"
       THEN [url |-> u, status |-> onImageError(err), body |-> 0, cause |-> err,
             contacted |-> downloadContacts(accountIndex)]
       ELSE [url |-> u, status |-> 200,
             body |-> CHOOSE b \in downloadImage(accountIndex, u[5]) : TRUE,
             cause |-> "none", contacted |-> downloadContacts(accountIndex)]

\* part_004:348-369  GET /api/onedrive/image/:accountIndex/:itemId for the locator
\* of a task record, the provider answering the download
FetchImage(u) ==
  /\ Quiet
  /\ IsGatewayUrl(u)
  /\ lastFetch' = imageAnswer(u, FALSE)
  /\ UNCHANGED <<env, users, oneDriveManager, numAccounts, currentAccountIndex, health, folders,
                 objects, disk, tasks, req, decisions, overlaps, lastStatus>>

\* part_004:359-364  res.send(imageBuffer): the answer is out
FetchSent ==
  /\ lastFetch # NoFetch
  /\ lastFetch' = NoFetch
  /\ UNCHANGED <<env, users, oneDriveManager, numAccounts, currentAccountIndex, health, folders,
                 objects, disk, tasks, req, decisions, overlaps, lastStatus>>

Next ==
  \/ \E r \in Reqs : PostTasks(r)
  \/ \E r \in Reqs : TokenResponse(r)
  \/ \E r \in Reqs : PutResponse(r)
  \/ \E t \in tasks : FetchImage(t.image)
  \/ FetchSent

Spec == Init /\ [][Next]_vars

\* Uploads one after the other: a request arrives when no upload is in flight
PostTasksAlone(r) == InFlight = {} /\ PostTasks(r)

SeqNext ==
  \/ \E r \in Reqs : PostTasksAlone(r)
  \/ \E r \in Reqs : TokenResponse(r)
  \/ \E r \in Reqs : PutResponse(r)
  \/ \E t \in tasks : FetchImage(t.image)
  \/ FetchSent

SeqSpec == Init /\ [][SeqNext]_vars

\* ------------------------------------------------------- reads and reports
\* The path segments a client may put in a GET /api/onedrive/image/<index>/<item>:
\* decimal numbers from -1 to past the last account, and a word that is no number
Segments == {"abc"} \cup {ToString(n) : n \in (-1)..MaxAccounts}
ItemIds == {ItemId(r) : r \in Reqs} \cup {"missing"}

\* part_004:348-369  GET /api/onedrive/image with any segments, the provider
\* answering the download or failing on it
ProbeImage(seg, itemId) ==
  /\ Quiet
  /\ \E fault \in BOOLEAN :
       lastFetch' = imageAnswer(proxyUrl_segments(seg, itemId), fault)
  /\ UNCHANGED <<env, users, oneDriveManager, numAccounts, currentAccountIndex, health, folders,
                 objects, disk, tasks, req, decisions, overlaps, lastStatus>>

\* storage.ts:767-793  getStorageInfo: for each account in turn a token and the
\* quota query inside a try, an entry pushed either way; `quotaFails` are the
\* accounts whose quota query fails
storageEntry(i, quotaFails) ==
  IF health[i] = "auth" \/ i \in quotaFails
  THEN [account |-> i, used |-> "Error", total |-> "Error"]
  ELSE [account |-> i, used |-> "bytes", total |-> "bytes"]

getStorageInfo_abortOnError(quotaFails) ==
  LET bad == {i \in Accounts : health[i] = "auth" \/ i \in quotaFails}
      n == IF bad = {} THEN numAccounts ELSE CHOOSE i \in bad : \A j \in bad : i <= j IN
    [k \in 1..n |-> storageEntry(k - 1, quotaFails)]
getStorageInfo(quotaFails) ==
  [k \in 1..numAccounts |-> storageEntry(k - 1, quotaFails)]

\* part_004:325-338  the body of the status answer: without the manager it has
\* enabled: false, a message and no list; with it, enabled: true and the report
\* storage.ts:772  the tokens getStorageInfo asks for, one per account in turn
storageTokens == [k \in 1..numAccounts |-> getAccessToken(k - 1, QuotaOp(k))]

statusBody_alwaysListed(manager, quotaFails) ==
  [code |-> 200, enabled |-> TRUE, listed |-> TRUE,
   accounts |-> getStorageInfo(quotaFails), quotaFailed |-> quotaFails,
   tokens |-> storageTokens]
statusBody(manager, quotaFails) ==
  IF ~manager
  THEN [code |-> 200, enabled |-> FALSE, listed |-> FALSE, accounts |-> <<>>,
        quotaFailed |-> {}, tokens |-> <<>>]
  ELSE [code |-> 200, enabled |-> TRUE, listed |-> TRUE,
        accounts |-> getStorageInfo(quotaFails), quotaFailed |-> quotaFails,
        tokens |-> storageTokens]

\* part_004:323-345  GET /api/onedrive/status
GetStatus ==
  /\ Quiet
  /\ \E quotaFails \in SUBSET {a \in Accounts : health[a] # "auth"} :
       lastStatus' = statusBody(oneDriveManager, quotaFails)
  /\ UNCHANGED <<env, users, oneDriveManager, numAccounts, currentAccountIndex, health, folders,
                 objects, disk, tasks, req, decisions, overlaps, lastFetch>>

\* part_004:334-338  res.json: the report is out
StatusSent ==
  /\ lastStatus # NoStatus
  /\ lastStatus' = NoStatus
  /\ UNCHANGED <<env, users, oneDriveManager, numAccounts, currentAccountIndex, health, folders,
                 objects, disk, tasks, req, decisions, overlaps, lastFetch>>

\* Uploads one after the other, with reads of any locator and capacity reports
\* arriving between their steps
ReadNext ==
  \/ \E r \in Reqs : PostTasksAlone(r)
  \/ \E r \in Reqs : TokenResponse(r)
  \/ \E r \in Reqs : PutResponse(r)
  \/ \E seg \in Segments, itemId \in ItemIds : ProbeImage(seg, itemId)
  \/ FetchSent
  \/ GetStatus
  \/ StatusSent

ReadSpec == Init /\ [][ReadNext]_vars

\* ------------------------------------------------------------ provisioning
\* the token exchange answers, and the folder checks of the attempt may fail on a
\* folder that is there, or find no folder that another writer then makes
ProvisionFaulty(r) ==
  \E checkFails, appears \in BOOLEAN :
    /\ checkFails \/ appears
    /\ req[r].pc = "token"
    /\ health[req[r].acct] # "auth"
    /\ TokenAnswer(r, checkFails, appears)

\* Uploads one after the other, the folder checks answering or failing
ProvisionNext ==
  \/ \E r \in Reqs : PostTasksAlone(r)
  \/ \E r \in Reqs : TokenResponse(r)
  \/ \E r \in Reqs : ProvisionFaulty(r)
  \/ \E r \in Reqs : PutResponse(r)

ProvisionSpec == Init /\ [][ProvisionNext]_vars

\* ---------------------------------------------------------------- ingress
\* At most MaxOddFiles requests of a run carry a file other than the usual one
OddSoFar == Cardinality({r \in Reqs : req[r].pc # "new" /\ req[r].file # UsualFile})

\* POST /api/tasks with one of the other files, when no upload is in flight
PostOddFile(r) ==
  /\ InFlight = {}
  /\ OddSoFar < MaxOddFiles
  /\ \E file \in OddFiles : Upload(r, file)

\* part_004:175  a request that carries no file
NoFile == [size |-> 0, mimetype |-> "", ext |-> ""]
\* the `image` fields a client may send in the body of such a request: a string of
\* the gateway's form, one of the local form, and another one
BodyImages == {proxyUrl_segments("0", "forged"), localUrl("forged"), <<"elsewhere">>}

\* part_004:167-173, 211-214  POST /api/tasks without a file: taskData spreads
\* req.body, the branch that sets taskData.image is skipped, and insertTaskSchema
\* (part_002:106-113) keeps the image field the body came with
PostBodyImage(r) ==
  /\ Quiet
  /\ req[r].pc = "new"
  /\ \A q \in 1..(r - 1) : req[q].pc # "new"
  /\ InFlight = {}
  /\ OddSoFar < MaxOddFiles
  /\ \E image \in BodyImages, valid \in Verdicts(r) :
       Respond(r, [req[r] EXCEPT !.file = NoFile], image, valid)
  /\ UNCHANGED <<env, users, oneDriveManager, numAccounts, currentAccountIndex, health, folders,
                 objects, disk, decisions, overlaps, lastFetch, lastStatus>>

IngressNext ==
  \/ \E r \in Reqs : PostTasksAlone(r)
  \/ \E r \in Reqs : PostOddFile(r)
  \/ \E r \in Reqs : PostBodyImage(r)
  \/ \E r \in Reqs : TokenResponse(r)
  \/ \E r \in Reqs : PutResponse(r)

IngressSpec == Init /\ [][IngressNext]_vars

\* part_004:157-223  the client of request r goes away while its upload is in
\* flight: the handler listens to no 'close' or 'aborted' event of the request and
\* passes no signal to axios, so nothing of the handler changes
ClientDisconnect(r) ==
  /\ req[r].pc \in {"token", "put"}
  /\ ~req[r].cancelled
  /\ req' = [req EXCEPT ![r].cancelled = TRUE]
  /\ UNCHANGED <<env, users, oneDriveManager, numAccounts, currentAccountIndex, health, folders,
                 objects, disk, tasks, decisions, overlaps, lastFetch, lastStatus>>

CancelNext ==
  \/ \E r \in Reqs : PostTasksAlone(r)
  \/ \E r \in Reqs : TokenResponse(r)
  \/ \E r \in Reqs : PutResponse(r)
  \/ \E r \in Reqs : ClientDisconnect(r)

CancelSpec == Init /\ [][CancelNext]_vars

\* ----------------------------------------------------------------- avatars
\* part_004:37-62, 94-112  POST /api/users/:id/avatar: upload.single('avatar')
\* filters and stores the file (diskStorage writes it under a name of its own and
\* sets req.file.filename; memoryStorage keeps it in req.file.buffer and sets no
\* filename), then the handler looks the user up, answers 404 or 400, or persists
\* `/uploads/${req.file.filename}` as the avatar
PostAvatar(r, id, file) ==
  /\ Quiet
  /\ req[r].pc = "new"
  /\ \A q \in 1..(r - 1) : req[q].pc # "new"
  /\ InFlight = {}
  /\ file # UsualFile => OddSoFar < MaxOddFiles
  /\ \E reach \in BOOLEAN :
       LET rec == [req[r] EXCEPT !.bytes = BlobOf(r), !.file = file]
           filename == IF oneDriveManager THEN Undefined ELSE MulterName(r)
           answer(status, why) ==
             req' = [req EXCEPT ![r] = [rec EXCEPT !.pc = "done", !.status = status,
                                                   !.cause = why]] IN
         IF file # NoFile /\ ~fileFilter(file)
         THEN Reject(r, rec, "filter") /\ UNCHANGED users
         ELSE IF file # NoFile /\ exceedsLimit(file.size, fileSize, reach)
         THEN Reject(r, rec, "size") /\ UNCHANGED users
         ELSE /\ disk' = IF file = NoFile \/ oneDriveManager THEN disk
                         ELSE disk \cup {[name |-> MulterName(r), content |-> BlobOf(r)]}
              /\ IF id \notin UserIds
                 THEN answer(404, "nouser") /\ UNCHANGED users
                 ELSE IF file = NoFile
                 THEN answer(400, "nofile") /\ UNCHANGED users
                 ELSE /\ users' = [users EXCEPT ![id] =
                                     [avatar |-> localUrl(filename), by |-> r]]
                      /\ answer(200, "avatar")
              /\ UNCHANGED <<currentAccountIndex, decisions, tasks>>
  /\ UNCHANGED <<env, oneDriveManager, numAccounts, health, folders, objects, overlaps,
                 lastFetch, lastStatus>>

\* Avatar uploads and task uploads, one request after the other
AvatarNext ==
  \/ \E r \in Reqs, id \in UserIds \cup {0}, file \in {UsualFile, NoFile} \cup OddFiles :
       PostAvatar(r, id, file)
  \/ \E r \in Reqs : PostTasksAlone(r)
  \/ \E r \in Reqs : TokenResponse(r)
  \/ \E r \in Reqs : PutResponse(r)

AvatarSpec == Init /\ [][AvatarNext]_vars

\* ---------------------------------------------------------------- liveness
\* The token endpoint of an account may never answer. Every handler step that can
\* run does run, and every answer the provider gives arrives.
LiveInit == InitWith(Outcomes \cup {Hang})

LiveNext ==
  \/ \E r \in Reqs : PostTasks(r)
  \/ \E r \in Reqs : TokenResponse(r)
  \/ \E r \in Reqs : PutResponse(r)

LiveSpec == LiveInit /\ [][LiveNext]_vars /\ WF_vars(LiveNext)

\* The provider calls of overlapping uploads are all answered, with a token or an
\* error, an item or an error: while an answer is due, one arrives
Responses == \E r \in Reqs : TokenResponse(r) \/ PutResponse(r)

\* Overlapping uploads and nothing else
StoreSpec == Init /\ [][LiveNext]_vars

AnsweredSpec == StoreSpec /\ WF_vars(Responses)

\* ------------------------------------------------- what the claims speak of
Done(r) == req[r].pc = "done"
\* uploadImage returned a reference / threw for request r
Stored(r) == req[r].store = "ref"
StoreFailed(r) == req[r].store = "failed"
\* the accounts that hold the item stored for request r
HoldersOf(r) == {o.account : o \in {p \in objects : p.id = ItemId(r)}}
\* the task record persisted for request r, if any
TaskOf(r) == {t \in tasks : t.id = r}
NoDuplicates(seq) == \A i, j \in 1..Len(seq) : i # j => seq[i] # seq[j]
Range(seq) == {seq[i] : i \in 1..Len(seq)}
GatewayConfigured == env.clientId /\ env.clientSecret /\ env.token1

\* C1 (as claimed): with K >= 2 accounts, when the account a Store call selects
\* first fails and some other configured account would succeed, the call returns a
\* reference, and the reference names another account, one that holds the upload.
C1_Failover ==
  \A r \in Reqs :
    ( /\ req[r].store # "none"
      /\ numAccounts >= 2
      /\ health[req[r].tried[1]] # "ok"
      /\ \E a \in Accounts \ {req[r].tried[1]} : health[a] = "ok" )
    => ( /\ Stored(r)
         /\ parseInt(req[r].url[4]) # req[r].tried[1]
         /\ parseInt(req[r].url[4]) \in HoldersOf(r) )

\* C2 (as claimed): when the gateway is configured and Store fails, the request
\* persists a local locator that names a file of the uploads directory whose content
\* is the uploaded image, so reading the locator through /uploads returns the image.
C2_FallbackStoresBytes ==
  \A r \in Reqs :
    (oneDriveManager /\ StoreFailed(r) /\ req[r].status = 200)
    => \E t \in TaskOf(r) : IsLocalUrl(t.image) /\ StaticRead(t.image) = {req[r].bytes}

\* C3 (as claimed): when the client id, the client secret or the refresh token is
\* absent, a task-creation request with an allowed image and valid task data is
\* answered 200, its task record holds a local locator whose file holds the image,
\* and no token exchange was made.
C3_NotConfiguredWritesLocally ==
  \A r \in Reqs :
    (~GatewayConfigured /\ Done(r) /\ req[r].cause # "invalid")
    => ( /\ req[r].status = 200
         /\ req[r].exchanges = <<>>
         /\ \E t \in TaskOf(r) : IsLocalUrl(t.image) /\ StaticRead(t.image) = {req[r].bytes} )

\* C4 (as claimed): under any interleaving of Store calls, one call attempts each
\* configured account at most once: at most numAccounts attempts, never the same
\* account twice, and at most one token exchange per account.
C4_NoRepeatedAttempt ==
  \A r \in Reqs :
    /\ Len(req[r].tried) <= numAccounts
    /\ NoDuplicates(req[r].tried)
    /\ NoDuplicates(req[r].exchanges)

\* C5: in a run of uploads one after the other, for every stretch s..t of uploads
\* that each succeeded at their first attempt, upload t is stored on the account
\* (cursor before upload s + (t - s)) mod numAccounts.
C5_RoundRobin ==
  \A s, t \in Reqs :
    (s <= t /\ \A q \in s..t : Stored(q) /\ Len(req[q].tried) = 1)
    => HoldersOf(t) = {(req[s].startCursor + (t - s)) % numAccounts}

\* C5 witness: three accounts, cursor 0, four uploads stored on 0, 1, 2, 0
C5_Witness ==
  /\ numAccounts = 3
  /\ NumReqs >= 4
  /\ req[1].startCursor = 0
  /\ \A q \in 1..4 : Stored(q) /\ Len(req[q].tried) = 1
  /\ <<HoldersOf(1), HoldersOf(2), HoldersOf(3), HoldersOf(4)>> = <<{0}, {1}, {2}, {0}>>

\* C6: under any interleaving, every placement decision reads and advances the
\* cursor in one step: after m decisions the cursor is m mod numAccounts, and any
\* numAccounts consecutive decisions name numAccounts distinct accounts.
C6_AtomicCursor ==
  numAccounts >= 1 =>
    /\ currentAccountIndex = Len(decisions) % numAccounts
    /\ \A i \in 1..(Len(decisions) - numAccounts + 1) :
         NoDuplicates(SubSeq(decisions, i, i + numAccounts - 1))

\* C6 witness: two uploads in flight at once, each having taken a decision, and the
\* decisions have gone round the accounts more than once
C6_Witness ==
  /\ numAccounts >= 2
  /\ Cardinality(InFlight) >= 2
  /\ Len(decisions) > numAccounts

\* C7 (as claimed): when every configured account fails, Store fails, returns no
\* reference, and has attempted every configured account exactly once.
C7_AllFail ==
  \A r \in Reqs :
    (req[r].store # "none" /\ \A a \in Accounts : health[a] # "ok")
    => ( /\ StoreFailed(r)
         /\ req[r].url = NoUrl
         /\ Range(req[r].tried) = Accounts
         /\ NoDuplicates(req[r].tried) )

\* C8: when the gateway is configured and Store fails, a request whose task data is
\* valid is answered 200, its task record is persisted, and the persisted locator
\* is a local one, not a gateway one.
C8_IngestSurvives ==
  \A r \in Reqs :
    (oneDriveManager /\ StoreFailed(r) /\ req[r].cause # "invalid")
    => ( /\ req[r].status = 200
         /\ TaskOf(r) # {}
         /\ \A t \in TaskOf(r) : IsLocalUrl(t.image) /\ ~IsGatewayUrl(t.image) )

\* C8 witness: every account of a configured gateway fails, Store failed, the
\* request was answered 200
C8_Witness ==
  \E r \in Reqs :
    /\ oneDriveManager
    /\ \A a \in Accounts : health[a] # "ok"
    /\ StoreFailed(r)
    /\ req[r].status = 200

\* C9: for every reference R that Store returned, under any interleaving, the
\* account index written in R is the one account that holds the item, downloadImage
\* with the index and item of R yields the uploaded bytes, and a GET of R through
\* the proxy route is answered 200 with those bytes.
C9_RoundTrip ==
  \A r \in Reqs :
    Stored(r) =>
      LET a == parseInt(req[r].url[4])
          i == req[r].url[5] IN
      /\ IsGatewayUrl(req[r].url)
      /\ HoldersOf(r) = {a}
      /\ a = req[r].acct
      /\ downloadImage(a, i) = {req[r].bytes}
      /\ (lastFetch.url = req[r].url
            => (lastFetch.status = 200 /\ lastFetch.body = req[r].bytes))

\* C9 witness: an upload that another upload overlapped, that failed on one account
\* and was stored on the next, has been fetched through the proxy route
C9_Witness ==
  \E r \in Reqs :
    /\ Stored(r)
    /\ overlaps > 0
    /\ Len(req[r].tried) >= 2
    /\ lastFetch.url = req[r].url
    /\ lastFetch.status = 200

\* C10: two accounts, cursor 0 at the start, account 0 always refusing the token
\* exchange, account 1 always succeeding: every upload of a run of uploads one after
\* the other is stored on account 1 after exactly two token exchanges, one for
\* account 0 and then one for account 1.
C10_FailingFirstAccount ==
  (numAccounts = 2 /\ health[0] = "auth" /\ health[1] = "ok")
  => \A r \in Reqs :
       req[r].store # "none"
       => ( /\ Stored(r)
            /\ HoldersOf(r) = {1}
            /\ parseInt(req[r].url[4]) = 1
            /\ req[r].exchanges = <<0, 1>> )

\* C10 witness: in that configuration every upload of the run has completed
C10_Witness ==
  /\ numAccounts = 2
  /\ health[0] = "auth"
  /\ health[1] = "ok"
  /\ \A r \in Reqs : Stored(r) /\ req[r].exchanges = <<0, 1>>

\* C11: with exactly one configured account, a Store call makes at most one attempt
\* and at most one token exchange; when that attempt fails the call fails at once,
\* without a reference and without a second attempt on the same account.
C11_SingleAccount ==
  numAccounts = 1 =>
    \A r \in Reqs :
      /\ Len(req[r].tried) <= 1
      /\ Len(req[r].exchanges) <= 1
      /\ (req[r].store # "none" /\ health[0] # "ok")
           => (StoreFailed(r) /\ req[r].tried = <<0>> /\ req[r].url = NoUrl)

\* C11 witness: one account that refuses the token exchange, and one that accepts it
\* and refuses the PUT; Store has failed after its one attempt while another upload
\* overlapped it
C11_Witness ==
  /\ numAccounts = 1
  /\ health[0] # "ok"
  /\ overlaps > 0
  /\ \E r \in Reqs : StoreFailed(r) /\ req[r].tried = <<0>>

\* the item of a locator is held by the account its index names
Resolvable(u) ==
  /\ oneDriveManager
  /\ parseInt(u[4]) \in Accounts
  /\ \E o \in objects : o.account = parseInt(u[4]) /\ o.id = u[5]

\* C12: a GET of a locator whose index is no index of the account list (negative,
\* numAccounts or more, not a number), or whose item the named account does not
\* hold, or any GET without the manager, is answered 404; the step that answers
\* and the step that sends the answer change nothing but the answer, so the state
\* the later requests are served from is the state before the GET.
C12_UnresolvableIs404 ==
  /\ [](lastFetch # NoFetch /\ ~Resolvable(lastFetch.url) => lastFetch.status = 404)
  /\ [][lastFetch' # lastFetch =>
          UNCHANGED <<env, users, oneDriveManager, numAccounts, currentAccountIndex, health,
                      folders, objects, disk, tasks, req, decisions>>]_vars

\* C12 witness: with two accounts or more and an upload in flight after a stored
\* one, a GET whose index segment is no number is being answered 404
C12_Witness ==
  /\ numAccounts >= 2
  /\ InFlight # {}
  /\ \E r \in Reqs : Stored(r)
  /\ lastFetch.status = 404
  /\ parseInt(lastFetch.url[4]) = NaN

\* C13 (as claimed): a GET reports its failures apart: a refused token exchange
\* and a provider fault on the download are never answered as not found (404).
C13_FetchTaxonomy ==
  lastFetch.cause \in {"auth", "unavailable"} => lastFetch.status # 404

\* C14: a GET of <index>/<item> asks for the token of the account the index names
\* and of no other account, whatever its outcome, and leaves the cursor and the
\* placement decisions as they were; the cursor changes only in a step that takes
\* one placement decision, and that step sets it to (cursor + 1) mod numAccounts.
C14_ReadsPinned ==
  /\ [](lastFetch # NoFetch =>
          /\ lastFetch.contacted \subseteq {parseInt(lastFetch.url[4])}
          /\ ((oneDriveManager /\ parseInt(lastFetch.url[4]) \in Accounts)
               => lastFetch.contacted = {parseInt(lastFetch.url[4])}))
  /\ [][/\ (lastFetch' # lastFetch
             => (currentAccountIndex' = currentAccountIndex /\ decisions' = decisions))
         /\ ((currentAccountIndex' # currentAccountIndex \/ decisions' # decisions)
             => /\ Len(decisions') = Len(decisions) + 1
                /\ decisions'[Len(decisions')] = currentAccountIndex
                /\ currentAccountIndex' = (currentAccountIndex + 1) % numAccounts
                /\ req' # req)]_vars

\* C14 witness: with the cursor at 0 after it went round three accounts, a GET
\* that names account 1 has asked for the token of account 1 and failed
C14_Witness ==
  /\ numAccounts = 3
  /\ Len(decisions) >= 3
  /\ currentAccountIndex = 0
  /\ lastFetch.status = 404
  /\ lastFetch.contacted = {1}

\* C15: the capacity report has one entry per configured account, in the order of
\* the configuration; the entry of account i is the error marker exactly when the
\* token exchange or the quota query of account i failed.
C15_ReportIsolatesFailures ==
  (lastStatus # NoStatus /\ oneDriveManager) =>
    /\ lastStatus.code = 200
    /\ lastStatus.enabled
    /\ Len(lastStatus.accounts) = numAccounts
    /\ \A k \in 1..numAccounts :
         /\ lastStatus.accounts[k].account = k - 1
         /\ ((lastStatus.accounts[k].used = "Error")
              <=> (health[k - 1] = "auth" \/ (k - 1) \in lastStatus.quotaFailed))
         /\ ((lastStatus.accounts[k].total = "Error")
              <=> (health[k - 1] = "auth" \/ (k - 1) \in lastStatus.quotaFailed))

\* C15 witness: three accounts; the token exchange of account 0 is refused, the
\* quota query of account 1 fails, account 2 is reported with its figures
C15_Witness ==
  /\ numAccounts = 3
  /\ health[0] = "auth"
  /\ lastStatus.quotaFailed = {1}
  /\ Len(lastStatus.accounts) = 3
  /\ lastStatus.accounts[3].used # "Error"

\* multer refused the file of request r
Rejected(r) == Done(r) /\ req[r].cause \in {"filter", "size"}

\* C16 (as claimed): an image of exactly 10 MiB passes multer and the handler runs
\* (with the manager, Store takes a placement decision for it); an image of one
\* byte more is refused: no token exchange, no placement decision, no task record.
C16_SizeBoundary ==
  \A r \in Reqs :
    (req[r].pc # "new" /\ fileFilter(req[r].file)) =>
      /\ req[r].file.size = 10485760
           => (~Rejected(r) /\ (oneDriveManager => Len(req[r].exchanges) >= 1))
      /\ req[r].file.size = 10485761
           => ( /\ Rejected(r)
                /\ req[r].exchanges = <<>>
                /\ req[r].tried = <<>>
                /\ TaskOf(r) = {} )

\* the content types of the allow-list
ImageTypes == {"image/jpeg", "image/jpg", "image/png", "image/gif", "image/webp"}

\* C17 (as claimed): an upload whose content type is not one of the allowed image
\* types is refused before any account is contacted: no token exchange, no
\* placement decision, and no task record.
C17_MediaTypeAllowList ==
  \A r \in Reqs :
    (oneDriveManager /\ req[r].pc # "new" /\ req[r].file.mimetype \notin ImageTypes)
    => ( /\ req[r].exchanges = <<>>
         /\ req[r].tried = <<>>
         /\ TaskOf(r) = {} )

\* C19 (as claimed): when the client of an upload went away while the upload was
\* in flight, no task record holds a gateway reference for that upload afterwards.
C19_CancelledRecordsNothing ==
  \A r \in Reqs :
    req[r].cancelled => \A t \in TaskOf(r) : ~IsGatewayUrl(t.image)

\* C18 (as claimed): every Store that was begun completes, with a reference or
\* with a failure, even when a call to the provider is never answered.
C18_NoIndefiniteBlocking ==
  \A r \in Reqs : (req[r].pc \in {"token", "put"}) ~> Done(r)

\* the manager is the one the routes module built from the environment
WiredByRoutes ==
  numAccounts = RoutesAccounts(env) /\ oneDriveManager = RoutesManager(env)

\* the number of accounts of the setup guide
DocumentedAccounts == 6

\* C20 (as claimed): with the client id, the client secret and the refresh tokens
\* 1 to 6 set, the application stores the n-th of a run of successful uploads on
\* account ((n - 1) mod 6) + 1, that is on index (n - 1) mod 6.
C20_SixAccountRoundRobin ==
  (WiredByRoutes /\ GatewayConfigured /\ env.tokens2to6) =>
    \A n \in Reqs :
      (\A q \in 1..n : Stored(q)) => HoldersOf(n) = {(n - 1) % DocumentedAccounts}

\* C21: when the routes module built no manager (the client id, the client secret
\* or the refresh token is absent, so no account is configured) the status answer
\* says enabled = false and has no account list, empty or not; when the manager has
\* K >= 1 accounts and every one of them fails its token exchange or its quota
\* query, the answer says enabled = true and lists K entries, each the error marker.
C21_NotEnabledIsExplicit ==
  lastStatus # NoStatus =>
    /\ ~oneDriveManager => (~lastStatus.enabled /\ ~lastStatus.listed)
    /\ ( /\ oneDriveManager
         /\ \A a \in Accounts : health[a] = "auth" \/ a \in lastStatus.quotaFailed )
       => ( /\ numAccounts >= 1
            /\ lastStatus.enabled
            /\ lastStatus.listed
            /\ Len(lastStatus.accounts) = numAccounts
            /\ \A k \in 1..numAccounts : lastStatus.accounts[k].used = "Error" )

\* C21 witness: the client id and secret are set and the refresh token is not, so
\* the account list is empty and no manager exists; the status was asked for
C21_Witness ==
  /\ env.clientId /\ env.clientSecret /\ ~env.token1
  /\ ~oneDriveManager
  /\ lastStatus.code = 200
  /\ ~lastStatus.enabled

\* C22 (as claimed): every image locator of a task record either has the gateway
\* form and is the reference a successful Store returned to the request that
\* persisted it, or has the local form and was set by the local path of a request
\* that carried a file and got no reference.
C22_LocatorShape ==
  \A t \in tasks :
    \/ IsGatewayUrl(t.image) /\ Stored(t.id) /\ t.image = req[t.id].url
    \/ IsLocalUrl(t.image) /\ ~Stored(t.id) /\ req[t.id].file # NoFile

\* C23: with K >= 1 configured accounts, under any interleaving, the cursor is an
\* index of the account list (0..K-1) in every state, every account a placement
\* decision selected is one, and so is the index written in every reference that
\* Store returned.
C23_IndexInRange ==
  oneDriveManager =>
    /\ numAccounts >= 1
    /\ currentAccountIndex \in 0..(numAccounts - 1)
    /\ \A i \in 1..Len(decisions) : decisions[i] \in 0..(numAccounts - 1)
    /\ \A r \in Reqs : req[r].acct # NaN => req[r].acct \in 0..(numAccounts - 1)
    /\ \A r \in Reqs :
         Stored(r) => ( /\ IsGatewayUrl(req[r].url)
                        /\ parseInt(req[r].url[4]) \in 0..(numAccounts - 1) )

\* C23 witness: the cursor has gone past the last account and is back at 0 while
\* an upload is in flight, and a returned reference carries the last index
C23_Witness ==
  /\ numAccounts >= 2
  /\ Len(decisions) > numAccounts
  /\ currentAccountIndex = 0
  /\ InFlight # {}
  /\ \E r \in Reqs : Stored(r) /\ parseInt(req[r].url[4]) = numAccounts - 1

\* C24 (as claimed): in a run of uploads one after the other, a Store call that
\* reported failure has attempted every configured account, and each retry of a
\* call went to an account the call had not attempted before.
C24_RetryWhileUntried ==
  \A r \in Reqs :
    /\ StoreFailed(r) => Accounts \ Range(req[r].tried) = {}
    /\ \A i \in 2..Len(req[r].tried) :
         req[r].tried[i] \notin Range(SubSeq(req[r].tried, 1, i - 1))

\* C25: every attempt of an upload makes one token exchange, for the account of the
\* attempt, and has no token before the exchange answers; the folder calls and the
\* PUT of the attempt use the token of that exchange, so the item lands in the drive
\* of the attempt's account; a download asks for one token, of the account its
\* index names; a capacity report asks for one token per account, each used for the
\* quota query of its own account. No token of one operation or account serves
\* another.
C25_FreshTokenPerOperation ==
  /\ \A r \in Reqs :
       /\ req[r].exchanges = req[r].tried
       /\ (req[r].pc = "token" => req[r].token = NoToken)
       /\ (req[r].pc = "put" \/ Stored(r))
            => ( /\ req[r].token.account = req[r].acct
                 /\ req[r].token.op = UploadOp(r, Len(req[r].tried)) )
       /\ (Stored(r) => HoldersOf(r) = {req[r].token.account})
  /\ \A r, q \in Reqs :
       (r # q /\ req[r].token # NoToken) => req[r].token.op # req[q].token.op
  /\ (lastFetch # NoFetch)
       => ( /\ lastFetch.contacted \subseteq {parseInt(lastFetch.url[4])}
            /\ (lastFetch.cause \in {"none", "noitem", "unavailable", "auth"}
                  => lastFetch.contacted = {parseInt(lastFetch.url[4])}) )
  /\ (lastStatus # NoStatus /\ lastStatus.enabled)
       => ( /\ Len(lastStatus.tokens) = numAccounts
            /\ \A k \in 1..numAccounts :
                 /\ lastStatus.tokens[k].account = k - 1
                 /\ lastStatus.tokens[k].op = QuotaOp(k)
                 /\ lastStatus.accounts[k].account = lastStatus.tokens[k].account )

\* C25 witness: an upload was stored by its second attempt, on account 1, with the
\* token of that attempt, and a capacity report over two accounts or more is out
C25_Witness ==
  /\ \E r \in Reqs :
       /\ Stored(r)
       /\ req[r].tried = <<0, 1>>
       /\ req[r].token = getAccessToken(1, UploadOp(r, 2))
  /\ lastStatus.enabled
  /\ Len(lastStatus.tokens) >= 2

\* C26 (as claimed): an attempt that provisions a folder that already exists sends
\* no create request for it and goes on to the PUT without an error.
C26_IdempotentProvisioning ==
  /\ \A a \in Accounts : \A f \in folders[a] : f.recreated = 0
  /\ \A r \in Reqs : req[r].token # NoToken => req[r].pc \in {"put", "done"}

Weight(pc) == IF pc = "token" THEN 2 ELSE IF pc = "put" THEN 1 ELSE 0
RECURSIVE Waiting(_)
Waiting(n) == IF n = 0 THEN 0 ELSE Weight(req[n].pc) + Waiting(n - 1)
Variant == 3 * (NumReqs * numAccounts - Len(decisions)) + Waiting(NumReqs)

\* C28: when every provider call is answered, every Store call of a set of
\* overlapping uploads returns, with a reference or with the all-accounts-failed
\* error, however the calls interleave on the cursor: a call in flight always has
\* an answer due that lets it step, and every step of an upload lowers a natural
\* number, so under the fairness of the answers no call stays in flight for ever.
C28_StoreTerminates ==
  /\ [](Variant >= 0)
  /\ [](\A r \in InFlight : ENABLED (TokenResponse(r) \/ PutResponse(r)))
  /\ [][Variant' < Variant \/ ~oneDriveManager]_vars

\* C28 witness: an upload began while another was in flight, a call made a retry,
\* and every call of the run has returned
C28_Witness ==
  /\ oneDriveManager
  /\ overlaps > 0
  /\ \E r \in Reqs : Len(req[r].tried) >= 2
  /\ \A r \in Reqs : Stored(r) \/ StoreFailed(r)

\* C29 (as claimed): once a task-creation request is answered, every item it stored
\* in an account is named by the locator of a task record the request persisted,
\* and a request answered with an error has no item stored in any account.
C29_NoOrphanAtCreation ==
  \A r \in Reqs :
    Done(r) =>
      /\ \A o \in {p \in objects : p.id = ItemId(r)} :
           \E t \in TaskOf(r) : t.image = proxyUrl(o.account, o.id)
      /\ (req[r].status # 200 => HoldersOf(r) = {})

\* C30 (as claimed): with or without the gateway, the avatar of every user record
\* that an avatar upload set is a local locator that names a file of the uploads
\* directory whose content is the uploaded image.
C30_AvatarNotDangling ==
  \A id \in UserIds :
    users[id] # NoAvatar =>
      /\ IsLocalUrl(users[id].avatar)
      /\ \E f \in disk : /\ f.name = users[id].avatar[2]
                          /\ f.content = BlobOf(users[id].by)
====
